---- MODULE Spec2Model ----
(***************************************************************************)
(* The Mephisto relay server (router): the connection registry, the packet *)
(* router of socket.on('message'), the dispatch loop main_thread, the send *)
(* routine _send_message with its single retry, and the HTTP bridge        *)
(* make_provider_request / submit_task.                                    *)
(*                                                                         *)
(* JavaScript objects are records; a property that is absent is a field    *)
(* that is not in the record's DOMAIN.  An exception thrown inside the try *)
(* block of the message handler ends the handler where it is thrown and is *)
(* recorded in `caught` (the catch block logs it).                         *)
(***************************************************************************)
EXTENDS Integers, Sequences, FiniteSets, TLC

\* ------------------------------------------------------------ bounds
\* Inputs (socket messages and HTTP calls) served in one behaviour.
MaxInputs == 3

\* ------------------------------------------------------------ constants
STATUS_INIT == "init"
SYSTEM_SOCKET_ID == "mephisto"
SERVER_SOCKET_ID == "mephisto_server"

PACKET_TYPE_REQUEST_AGENT_STATUS == "request_status"
PACKET_TYPE_RETURN_AGENT_STATUS == "return_status"
PACKET_TYPE_INIT_DATA == "initial_data_send"
PACKET_TYPE_AGENT_ACTION == "agent_action"
PACKET_TYPE_NEW_AGENT == "register_agent"
PACKET_TYPE_NEW_WORKER == "register_worker"
PACKET_TYPE_GET_INIT_DATA == "init_data_request"
PACKET_TYPE_ALIVE == "alive"
PACKET_TYPE_PROVIDER_DETAILS == "provider_details"
PACKET_TYPE_SUBMIT_ONBOARDING == "submit_onboarding"

\* JavaScript null (no socket, no timer) and undefined.
NULL == "null"
Undefined == "undefined"
\* The exceptions the handlers can throw; NoError when none is thrown.
NoError == "none"
TypeError == "TypeError"
ReferenceError == "ReferenceError"
SyntaxError == "SyntaxError"

\* WebSocket.readyState: 1 is OPEN, 3 is CLOSED; UNCONNECTED is a socket that has
\* not connected yet.
UNCONNECTED == "unconnected"
OPEN == "open"
CLOSED == "closed"

\* ------------------------------------------------------------ inputs
\* The sockets that may connect, the agent ids clients pick, and the ids
\* uuidv4 hands out (taken to be fresh on each call).
Sockets == {"s1", "s2"}
AgentIds == {"a1", "a2"}
UUIDS == <<"r1", "r2", "r3", "r4">>
RequestIds == {UUIDS[i] : i \in 1..Len(UUIDS)}

\* obj[key] of JavaScript for a key that may be absent.
Has(obj, key) == key \in DOMAIN obj
Get(obj, key) == IF Has(obj, key) THEN obj[key] ELSE Undefined

\* {} : the object with no keys.
EmptyObject == [k \in {} |-> Undefined]

Packet(t, s, r, d) ==
    [packet_type |-> t, sender_id |-> s, receiver_id |-> r, data |-> d]

AlivePackets ==
    {Packet(PACKET_TYPE_ALIVE, s, SERVER_SOCKET_ID, EmptyObject) :
        s \in {SYSTEM_SOCKET_ID} \cup AgentIds}

StatusRequestPackets ==
    {Packet(PACKET_TYPE_REQUEST_AGENT_STATUS, SYSTEM_SOCKET_ID,
            SERVER_SOCKET_ID, EmptyObject)}

ActionPackets ==
    {Packet(PACKET_TYPE_AGENT_ACTION, "a2", r, [text |-> "x"]) :
        r \in {SYSTEM_SOCKET_ID, "a1"}}

\* Replies of the system to a provider request: the correlation key is in
\* data.request_id, or that field is absent and receiver_id carries it, or
\* the packet has no data at all.
ReplyPackets ==
    {Packet(PACKET_TYPE_PROVIDER_DETAILS, SYSTEM_SOCKET_ID, SERVER_SOCKET_ID,
            [request_id |-> q, ok |-> TRUE]) : q \in {"r1", "r2"}}
    \cup
    {Packet(PACKET_TYPE_INIT_DATA, SYSTEM_SOCKET_ID, SERVER_SOCKET_ID,
            [request_id |-> "r1", ok |-> TRUE])}
    \cup
    {Packet(PACKET_TYPE_PROVIDER_DETAILS, SYSTEM_SOCKET_ID, "r1", [ok |-> TRUE])}
    \cup
    {[packet_type |-> PACKET_TYPE_PROVIDER_DETAILS,
      sender_id |-> SYSTEM_SOCKET_ID, receiver_id |-> "r1"]}

\* A packet of a type the router has no branch for.
OtherPackets ==
    {Packet(PACKET_TYPE_RETURN_AGENT_STATUS, SYSTEM_SOCKET_ID,
            SERVER_SOCKET_ID, EmptyObject)}

InboundPackets ==
    AlivePackets \cup StatusRequestPackets \cup ActionPackets
        \cup ReplyPackets \cup OtherPackets

\* JSON.stringify and JSON.parse: a raw message is a JSON text carrying a
\* value, or a text that is no JSON.
JSON_stringify(value) == [json |-> TRUE, value |-> value]
NotJSON == [json |-> FALSE]
RawMessages == {JSON_stringify(p) : p \in InboundPackets} \cup {NotJSON}
JSON_parses(raw) == raw.json
JSON_parse(raw) == raw.value

\* ------------------------------------------------------------ state
VARIABLES
    \* the module-level variables of the server
    agent_id_to_socket,
    socket_id_to_agent,
    agent_id_to_agent,
    mephisto_message_queue,
    main_thread_timeout,
    mephisto_socket,
    pending_provider_requests,
    \* the runtime: sockets, timers, the process, the HTTP responses
    readyState,         \* socket -> UNCONNECTED, OPEN or CLOSED
    armed_timers,       \* number of pending setTimeout(main_thread, 50)
    retry_timers,       \* pending setTimeout(.., 500) of _send_message, oldest first
    attempts,           \* every socket.send call so far, in call order
    nsend,              \* number of first socket.send calls made
    nuuid,              \* number of uuidv4 calls made
    responses,          \* res handle -> the bodies written to it by res.json
    crashed,            \* an exception left a callback uncaught
    caught,             \* what the catch of the last message handler logged
    \* the environment's bookkeeping
    ninputs,            \* socket messages and HTTP calls served so far
    event,              \* the callback that ran last, with its inputs
    was_system,         \* the sockets that have sent alive as the system
    alive_on,           \* agent id -> socket of the latest alive sent under that id
    expected            \* agent id -> agent_action packets sent to it since the last tick

server_vars ==
    <<agent_id_to_socket, socket_id_to_agent, agent_id_to_agent,
      mephisto_message_queue, main_thread_timeout, mephisto_socket,
      pending_provider_requests>>

registry_vars ==
    <<agent_id_to_socket, socket_id_to_agent, agent_id_to_agent, mephisto_socket>>

io_vars == <<retry_timers, attempts, nsend>>

vars ==
    <<agent_id_to_socket, socket_id_to_agent, agent_id_to_agent,
      mephisto_message_queue, main_thread_timeout, mephisto_socket,
      pending_provider_requests, readyState, armed_timers, retry_timers,
      attempts, nsend, nuuid, responses, crashed, caught, ninputs, event,
      was_system, alive_on, expected>>

NoEvent == [op |-> "init"]

Init ==
    /\ agent_id_to_socket = EmptyObject
    /\ socket_id_to_agent = EmptyObject
    /\ agent_id_to_agent = EmptyObject
    /\ mephisto_message_queue = <<>>
    /\ main_thread_timeout = NULL
    /\ mephisto_socket = NULL
    /\ pending_provider_requests = EmptyObject
    /\ readyState = [s \in Sockets |-> UNCONNECTED]
    /\ armed_timers = 0
    /\ retry_timers = <<>>
    /\ attempts = <<>>
    /\ nsend = 0
    /\ nuuid = 0
    /\ responses = <<>>
    /\ crashed = FALSE
    /\ caught = NoError
    /\ ninputs = 0
    /\ event = NoEvent
    /\ was_system = {}
    /\ alive_on = [i \in AgentIds |-> NULL]
    /\ expected = [i \in AgentIds |-> <<>>]

\* ------------------------------------------------------------ sending
\* The three things _send_message touches, as one value.
IO == [attempts |-> attempts, retry_timers |-> retry_timers, nsend |-> nsend]

\* socket.send(data, ack): one more call on the wire; `error` is what the
\* transport reports to ack.
socket_send(log, sid, socket, data, attempt, error) ==
    Append(log, [sid |-> sid, socket |-> socket, data |-> data,
                 attempt |-> attempt, ok |-> ~error])

\* _send_message with the test of ack's error left out: the retry timer is
\* set after every first send.
_send_message_always_retry(io, socket, packet, error) ==
    IF socket = NULL THEN io
    ELSE IF readyState[socket] = CLOSED THEN io
    ELSE LET sid == io.nsend + 1 IN
         [attempts |-> socket_send(io.attempts, sid, socket,
                                   JSON_stringify(packet), 1, error),
          retry_timers |->
              Append(io.retry_timers,
                     [sid |-> sid, socket |-> socket, packet |-> packet]),
          nsend |-> sid]

\* _send_message without the readyState test: a closed socket is sent to
\* like an open one.
_send_message_unchecked(io, socket, packet, error) ==
    IF socket = NULL THEN io
    ELSE LET sid == io.nsend + 1 IN
         [attempts |-> socket_send(io.attempts, sid, socket,
                                   JSON_stringify(packet), 1, error),
          retry_timers |->
              IF error
              THEN Append(io.retry_timers,
                          [sid |-> sid, socket |-> socket, packet |-> packet])
              ELSE io.retry_timers,
          nsend |-> sid]

\* _send_message(socket, packet): nothing for a missing or closed socket;
\* else one send, and when ack gets an error, a timer for the one retry.
_send_message(io, socket, packet, error) ==
    IF socket = NULL THEN io
    ELSE IF readyState[socket] = CLOSED THEN io
    ELSE LET sid == io.nsend + 1 IN
         [attempts |-> socket_send(io.attempts, sid, socket,
                                   JSON_stringify(packet), 1, error),
          retry_timers |->
              IF error
              THEN Append(io.retry_timers,
                          [sid |-> sid, socket |-> socket, packet |-> packet])
              ELSE io.retry_timers,
          nsend |-> sid]

\* The packets of one batch, sent in order; errors[k] is the transport's
\* answer to the k-th _send_message call of the running callback.
RECURSIVE send_each(_, _, _, _, _)
send_each(io, socket, packets, errors, k) ==
    IF packets = <<>> THEN io
    ELSE send_each(_send_message(io, socket, Head(packets), errors[k]),
                   socket, Tail(packets), errors, k + 1)

\* The timer of a failed first send fires: the second and last send.  A
\* socket that is no longer open answers with an error.
send_retry(timer, error2) ==
    /\ attempts' = socket_send(attempts, timer.sid, timer.socket,
                               JSON_stringify(timer.packet), 2, error2)
    /\ retry_timers' = Tail(retry_timers)
    /\ UNCHANGED nsend

\* ------------------------------------------------------------ agents
\* new LocalAgentState(agent_id)
LocalAgentState_constructor(agent_id) ==
    [status |-> STATUS_INIT, agent_id |-> agent_id, unsent_messages |-> <<>>]

\* A LocalAgentState call that builds a record, with another status.
LocalAgentState_connected(agent_id) ==
    [status |-> "connected", agent_id |-> agent_id, unsent_messages |-> <<>>]

\* LocalAgentState(agent_id), as handle_alive calls it: a class constructor
\* invoked without new throws a TypeError and builds nothing.
LocalAgentState(agent_id) == [threw |-> TypeError]

\* get_sendable_messages
get_sendable_messages(agent) == agent.unsent_messages
after_get_sendable_messages(agent) == [agent EXCEPT !.unsent_messages = <<>>]

\* socket.id: the sockets of the ws library carry no id property, and the
\* server assigns none.
socket_id(socket) == Undefined

\* obj[key] = value
Put(obj, key, value) ==
    [k \in DOMAIN obj \cup {key} |-> IF k = key THEN value ELSE obj[k]]

\* delete obj[key]
Delete(obj, key) == [k \in DOMAIN obj \ {key} |-> obj[k]]

\* The keys of an object as for-in visits them, as a sequence.
RECURSIVE KeysOf(_)
KeysOf(obj) ==
    IF DOMAIN obj = {} THEN <<>>
    ELSE LET k == CHOOSE x \in DOMAIN obj : TRUE
         IN <<k>> \o KeysOf(Delete(obj, k))

\* The handle setTimeout returns.
TIMEOUT == "timeout"

\* What a message handler may change besides `caught`.
handler_vars ==
    <<agent_id_to_socket, socket_id_to_agent, agent_id_to_agent,
      mephisto_message_queue, main_thread_timeout, mephisto_socket,
      pending_provider_requests, armed_timers, responses, retry_timers,
      attempts, nsend, nuuid>>

\* ------------------------------------------------------------ router
\* handle_alive that takes the system socket only while none is set.
handle_alive_keeps_first(socket, alive_packet) ==
    IF Get(alive_packet, "sender_id") = SYSTEM_SOCKET_ID
    THEN /\ IF mephisto_socket = NULL
            THEN mephisto_socket' = socket
            ELSE UNCHANGED mephisto_socket
         /\ IF main_thread_timeout = NULL
            THEN /\ main_thread_timeout' = TIMEOUT
                 /\ armed_timers' = armed_timers + 1
            ELSE UNCHANGED <<main_thread_timeout, armed_timers>>
         /\ caught' = NoError
         /\ UNCHANGED <<agent_id_to_socket, socket_id_to_agent, agent_id_to_agent,
                        mephisto_message_queue, pending_provider_requests,
                        responses, retry_timers, attempts, nsend, nuuid>>
    ELSE /\ caught' = LocalAgentState(Get(alive_packet, "sender_id")).threw
         /\ UNCHANGED handler_vars

\* handle_alive that binds the agent's socket before it builds the record.
handle_alive_binds_first(socket, alive_packet) ==
    IF Get(alive_packet, "sender_id") = SYSTEM_SOCKET_ID
    THEN /\ mephisto_socket' = socket
         /\ IF main_thread_timeout = NULL
            THEN /\ main_thread_timeout' = TIMEOUT
                 /\ armed_timers' = armed_timers + 1
            ELSE UNCHANGED <<main_thread_timeout, armed_timers>>
         /\ caught' = NoError
         /\ UNCHANGED <<agent_id_to_socket, socket_id_to_agent, agent_id_to_agent,
                        mephisto_message_queue, pending_provider_requests,
                        responses, retry_timers, attempts, nsend, nuuid>>
    ELSE LET agent_id == Get(alive_packet, "sender_id")
             agent == LocalAgentState(agent_id)
         IN  /\ agent_id_to_socket' = Put(agent_id_to_socket, agent_id, socket)
             /\ caught' = agent.threw
             /\ UNCHANGED <<socket_id_to_agent, agent_id_to_agent,
                            mephisto_message_queue, main_thread_timeout,
                            mephisto_socket, pending_provider_requests,
                            armed_timers, responses, retry_timers,
                            attempts, nsend, nuuid>>

\* handle_alive that starts main_thread on every alive of the system.
handle_alive_restarts(socket, alive_packet) ==
    IF Get(alive_packet, "sender_id") = SYSTEM_SOCKET_ID
    THEN /\ mephisto_socket' = socket
         /\ main_thread_timeout' = TIMEOUT
         /\ armed_timers' = armed_timers + 1
         /\ caught' = NoError
         /\ UNCHANGED <<agent_id_to_socket, socket_id_to_agent, agent_id_to_agent,
                        mephisto_message_queue, pending_provider_requests,
                        responses, retry_timers, attempts, nsend, nuuid>>
    ELSE /\ caught' = LocalAgentState(Get(alive_packet, "sender_id")).threw
         /\ UNCHANGED handler_vars

handle_alive(socket, alive_packet) ==
    IF Get(alive_packet, "sender_id") = SYSTEM_SOCKET_ID
    THEN /\ mephisto_socket' = socket
         /\ IF main_thread_timeout = NULL
            THEN /\ main_thread_timeout' = TIMEOUT
                 /\ armed_timers' = armed_timers + 1
            ELSE UNCHANGED <<main_thread_timeout, armed_timers>>
         /\ caught' = NoError
         /\ UNCHANGED <<agent_id_to_socket, socket_id_to_agent, agent_id_to_agent,
                        mephisto_message_queue, pending_provider_requests,
                        responses, retry_timers, attempts, nsend, nuuid>>
    ELSE LET agent_id == Get(alive_packet, "sender_id")
             agent == LocalAgentState(agent_id)
         IN  IF Has(agent, "threw")
             THEN /\ caught' = agent.threw
                  /\ UNCHANGED handler_vars
             ELSE /\ agent_id_to_socket' = Put(agent_id_to_socket, agent_id, socket)
                  /\ socket_id_to_agent' =
                         Put(socket_id_to_agent, socket_id(socket), agent)
                  /\ agent_id_to_agent' = Put(agent_id_to_agent, agent_id, agent)
                  /\ caught' = NoError
                  /\ UNCHANGED <<mephisto_message_queue, main_thread_timeout,
                                 mephisto_socket, pending_provider_requests,
                                 armed_timers, responses, retry_timers,
                                 attempts, nsend, nuuid>>

\* handle_get_agent_status with sender and receiver of the snapshot swapped.
handle_get_agent_status_swapped(status_packet) ==
    LET agent_statuses ==
            [agent_id \in DOMAIN agent_id_to_agent |->
                agent_id_to_agent[agent_id].status]
        packet == Packet(PACKET_TYPE_RETURN_AGENT_STATUS, SYSTEM_SOCKET_ID,
                         SERVER_SOCKET_ID, agent_statuses)
    IN  /\ mephisto_message_queue' = Append(mephisto_message_queue, packet)
        /\ caught' = NoError
        /\ UNCHANGED <<agent_id_to_socket, socket_id_to_agent, agent_id_to_agent,
                       main_thread_timeout, mephisto_socket,
                       pending_provider_requests, armed_timers, responses,
                       retry_timers, attempts, nsend, nuuid>>

handle_get_agent_status(status_packet) ==
    LET agent_statuses ==
            [agent_id \in DOMAIN agent_id_to_agent |->
                agent_id_to_agent[agent_id].status]
        packet == Packet(PACKET_TYPE_RETURN_AGENT_STATUS, SERVER_SOCKET_ID,
                         SYSTEM_SOCKET_ID, agent_statuses)
    IN  /\ mephisto_message_queue' = Append(mephisto_message_queue, packet)
        /\ caught' = NoError
        /\ UNCHANGED <<agent_id_to_socket, socket_id_to_agent, agent_id_to_agent,
                       main_thread_timeout, mephisto_socket,
                       pending_provider_requests, armed_timers, responses,
                       retry_timers, attempts, nsend, nuuid>>

\* The name alive_packet where handle_forward reads it: the function has no
\* such parameter or local and the module no such variable, so evaluating it
\* throws a ReferenceError.
alive_packet == [threw |-> ReferenceError]

handle_forward(packet) ==
    IF Has(alive_packet, "threw")
    THEN /\ caught' = alive_packet.threw
         /\ UNCHANGED handler_vars
    ELSE IF Get(alive_packet, "receiver_id") = SYSTEM_SOCKET_ID
    THEN /\ mephisto_message_queue' = Append(mephisto_message_queue, packet)
         /\ caught' = NoError
         /\ UNCHANGED <<agent_id_to_socket, socket_id_to_agent, agent_id_to_agent,
                        main_thread_timeout, mephisto_socket,
                        pending_provider_requests, armed_timers, responses,
                        retry_timers, attempts, nsend, nuuid>>
    ELSE IF ~Has(agent_id_to_agent, Get(packet, "receiver_id"))
    THEN /\ caught' = TypeError
         /\ UNCHANGED handler_vars
    ELSE LET agent == agent_id_to_agent[packet.receiver_id]
         IN  /\ agent_id_to_agent' =
                    Put(agent_id_to_agent, packet.receiver_id,
                        [agent EXCEPT !.unsent_messages = Append(@, packet)])
             /\ caught' = NoError
             /\ UNCHANGED <<agent_id_to_socket, socket_id_to_agent,
                            mephisto_message_queue, main_thread_timeout,
                            mephisto_socket, pending_provider_requests,
                            armed_timers, responses, retry_timers, attempts,
                            nsend, nuuid>>

\* res.json(body)
res_json(res, body) == [responses EXCEPT ![res] = Append(@, body)]

\* The key a reply is matched by: data.request_id, else receiver_id.
correlation_key(packet) ==
    IF Get(packet.data, "request_id") = Undefined
    THEN Get(packet, "receiver_id")
    ELSE packet.data.request_id

\* The reply branch without the delete of the resolved entry.
handle_provider_reply_keeps_entry(packet) ==
    IF ~Has(packet, "data")
    THEN /\ caught' = TypeError
         /\ UNCHANGED handler_vars
    ELSE LET request_id == correlation_key(packet) IN
         IF ~Has(pending_provider_requests, request_id)
         THEN /\ caught' = TypeError
              /\ UNCHANGED handler_vars
         ELSE /\ responses' = res_json(pending_provider_requests[request_id], packet)
              /\ caught' = NoError
              /\ UNCHANGED <<agent_id_to_socket, socket_id_to_agent,
                             agent_id_to_agent, mephisto_message_queue,
                             main_thread_timeout, mephisto_socket,
                             pending_provider_requests, armed_timers,
                             retry_timers, attempts, nsend, nuuid>>

\* The provider_details / initial_data_send branch of the message handler.
handle_provider_reply(packet) ==
    IF ~Has(packet, "data")
    THEN /\ caught' = TypeError
         /\ UNCHANGED handler_vars
    ELSE LET request_id == correlation_key(packet) IN
         IF ~Has(pending_provider_requests, request_id)
         THEN /\ caught' = TypeError
              /\ UNCHANGED handler_vars
         ELSE LET res_obj == pending_provider_requests[request_id]
              IN  /\ responses' = res_json(res_obj, packet)
                  /\ pending_provider_requests' =
                         Delete(pending_provider_requests, request_id)
                  /\ caught' = NoError
                  /\ UNCHANGED <<agent_id_to_socket, socket_id_to_agent,
                                 agent_id_to_agent, mephisto_message_queue,
                                 main_thread_timeout, mephisto_socket,
                                 armed_timers, retry_timers, attempts, nsend,
                                 nuuid>>

\* The try block with a last branch that passes a packet of any other type
\* on to the system.
route_forwards_unknown(socket, raw) ==
    IF ~JSON_parses(raw)
    THEN /\ caught' = SyntaxError
         /\ UNCHANGED handler_vars
    ELSE LET packet == JSON_parse(raw)
             type == Get(packet, "packet_type")
         IN  IF type = PACKET_TYPE_REQUEST_AGENT_STATUS
             THEN handle_get_agent_status(packet)
             ELSE IF type = PACKET_TYPE_AGENT_ACTION
             THEN handle_forward(packet)
             ELSE IF type = PACKET_TYPE_ALIVE
             THEN handle_alive(socket, packet)
             ELSE IF type \in {PACKET_TYPE_PROVIDER_DETAILS,
                               PACKET_TYPE_INIT_DATA}
             THEN handle_provider_reply(packet)
             ELSE /\ mephisto_message_queue' =
                         Append(mephisto_message_queue, packet)
                  /\ caught' = NoError
                  /\ UNCHANGED <<agent_id_to_socket, socket_id_to_agent,
                                 agent_id_to_agent, main_thread_timeout,
                                 mephisto_socket, pending_provider_requests,
                                 armed_timers, responses, retry_timers,
                                 attempts, nsend, nuuid>>

\* The try block of socket.on('message'): parse, then route by packet_type.
route(socket, raw) ==
    IF ~JSON_parses(raw)
    THEN /\ caught' = SyntaxError
         /\ UNCHANGED handler_vars
    ELSE LET packet == JSON_parse(raw)
             type == Get(packet, "packet_type")
         IN  IF type = PACKET_TYPE_REQUEST_AGENT_STATUS
             THEN handle_get_agent_status(packet)
             ELSE IF type = PACKET_TYPE_AGENT_ACTION
             THEN handle_forward(packet)
             ELSE IF type = PACKET_TYPE_ALIVE
             THEN handle_alive(socket, packet)
             ELSE IF type \in {PACKET_TYPE_PROVIDER_DETAILS,
                               PACKET_TYPE_INIT_DATA}
             THEN handle_provider_reply(packet)
             ELSE /\ caught' = NoError
                  /\ UNCHANGED handler_vars

\* The message handler without its try/catch: what a branch throws leaves
\* the callback and ends the process.
on_message_uncaught(socket, raw) ==
    /\ route(socket, raw)
    /\ crashed' = (caught' # NoError)

\* socket.on('message'): the whole body runs inside try/catch, so whatever
\* a branch throws is logged and the process goes on.
on_message(socket, raw) ==
    /\ route(socket, raw)
    /\ UNCHANGED crashed

\* ------------------------------------------------------------ dispatch
\* The first loop of main_thread over the keys of agent_id_to_socket.  An
\* id with no agent record makes agent_state undefined, and the method call
\* on it throws; nothing catches it.
RECURSIVE flush_agents(_, _, _, _, _)
flush_agents(ids, agents, io, errors, k) ==
    IF ids = <<>>
    THEN [agents |-> agents, io |-> io, k |-> k, threw |-> NoError]
    ELSE LET agent_id == Head(ids) IN
         IF ~Has(agents, agent_id)
         THEN [agents |-> agents, io |-> io, k |-> k, threw |-> TypeError]
         ELSE LET agent_state == agents[agent_id]
                  sendable_messages == get_sendable_messages(agent_state)
                  socket == agent_id_to_socket[agent_id]
              IN  flush_agents(
                      Tail(ids),
                      Put(agents, agent_id, after_get_sendable_messages(agent_state)),
                      send_each(io, socket, sendable_messages, errors, k),
                      errors, k + Len(sendable_messages))

\* Packets waiting in all the queues a tick drains.
RECURSIVE QueuedIn(_, _)
QueuedIn(ids, agents) ==
    IF ids = <<>> THEN 0
    ELSE (IF Has(agents, Head(ids))
          THEN Len(agents[Head(ids)].unsent_messages) ELSE 0)
         + QueuedIn(Tail(ids), agents)

Queued ==
    QueuedIn(KeysOf(agent_id_to_socket), agent_id_to_agent)
        + Len(mephisto_message_queue)

\* main_thread that takes one packet off the system queue per tick.
main_thread_one_per_tick(errors) ==
    LET flushed == flush_agents(KeysOf(agent_id_to_socket), agent_id_to_agent,
                                IO, errors, 1)
    IN  IF flushed.threw # NoError
        THEN /\ crashed' = TRUE
             /\ agent_id_to_agent' = flushed.agents
             /\ attempts' = flushed.io.attempts
             /\ retry_timers' = flushed.io.retry_timers
             /\ nsend' = flushed.io.nsend
             /\ armed_timers' = armed_timers - 1
             /\ UNCHANGED <<mephisto_message_queue, main_thread_timeout>>
        ELSE LET mephisto_messages ==
                     IF mephisto_message_queue = <<>> THEN <<>>
                     ELSE <<Head(mephisto_message_queue)>>
                 io == send_each(flushed.io, mephisto_socket, mephisto_messages,
                                 errors, flushed.k)
             IN  /\ agent_id_to_agent' = flushed.agents
                 /\ mephisto_message_queue' =
                        IF mephisto_message_queue = <<>> THEN <<>>
                        ELSE Tail(mephisto_message_queue)
                 /\ attempts' = io.attempts
                 /\ retry_timers' = io.retry_timers
                 /\ nsend' = io.nsend
                 /\ main_thread_timeout' = TIMEOUT
                 /\ armed_timers' = (armed_timers - 1) + 1
                 /\ UNCHANGED crashed

\* main_thread without its last statement: the timer is not set again.
main_thread_once(errors) ==
    LET flushed == flush_agents(KeysOf(agent_id_to_socket), agent_id_to_agent,
                                IO, errors, 1)
    IN  IF flushed.threw # NoError
        THEN /\ crashed' = TRUE
             /\ agent_id_to_agent' = flushed.agents
             /\ attempts' = flushed.io.attempts
             /\ retry_timers' = flushed.io.retry_timers
             /\ nsend' = flushed.io.nsend
             /\ armed_timers' = armed_timers - 1
             /\ UNCHANGED <<mephisto_message_queue, main_thread_timeout>>
        ELSE LET mephisto_messages == mephisto_message_queue
                 io == send_each(flushed.io, mephisto_socket, mephisto_messages,
                                 errors, flushed.k)
             IN  /\ agent_id_to_agent' = flushed.agents
                 /\ mephisto_message_queue' = <<>>
                 /\ attempts' = io.attempts
                 /\ retry_timers' = io.retry_timers
                 /\ nsend' = io.nsend
                 /\ armed_timers' = armed_timers - 1
                 /\ UNCHANGED <<crashed, main_thread_timeout>>

main_thread(errors) ==
    LET flushed == flush_agents(KeysOf(agent_id_to_socket), agent_id_to_agent,
                                IO, errors, 1)
    IN  IF flushed.threw # NoError
        THEN /\ crashed' = TRUE
             /\ agent_id_to_agent' = flushed.agents
             /\ attempts' = flushed.io.attempts
             /\ retry_timers' = flushed.io.retry_timers
             /\ nsend' = flushed.io.nsend
             /\ armed_timers' = armed_timers - 1
             /\ UNCHANGED <<mephisto_message_queue, main_thread_timeout>>
        ELSE LET mephisto_messages == mephisto_message_queue
                 io == send_each(flushed.io, mephisto_socket, mephisto_messages,
                                 errors, flushed.k)
             IN  /\ agent_id_to_agent' = flushed.agents
                 /\ mephisto_message_queue' = <<>>
                 /\ attempts' = io.attempts
                 /\ retry_timers' = io.retry_timers
                 /\ nsend' = io.nsend
                 /\ main_thread_timeout' = TIMEOUT
                 /\ armed_timers' = (armed_timers - 1) + 1
                 /\ UNCHANGED crashed

\* ------------------------------------------------------------ HTTP bridge
\* uuidv4() that hands out the same id on every call.
uuidv4_repeating == UUIDS[1]

\* uuidv4(): the next unused id.
uuidv4 == UUIDS[nuuid + 1]

\* make_provider_request that queues the request for the next tick instead
\* of sending it.
make_provider_request_queued(request_type, provider_data, res, error) ==
    LET request_id == uuidv4
        request_packet ==
            Packet(request_type, SERVER_SOCKET_ID, SYSTEM_SOCKET_ID,
                   [provider_data |-> provider_data, request_id |-> request_id])
    IN  /\ nuuid' = nuuid + 1
        /\ pending_provider_requests' =
               Put(pending_provider_requests, request_id, res)
        /\ mephisto_message_queue' =
               Append(mephisto_message_queue, request_packet)
        /\ UNCHANGED <<agent_id_to_socket, socket_id_to_agent, agent_id_to_agent,
                       main_thread_timeout, mephisto_socket, armed_timers,
                       attempts, retry_timers, nsend>>

make_provider_request(request_type, provider_data, res, error) ==
    LET request_id == uuidv4
        request_packet ==
            Packet(request_type, SERVER_SOCKET_ID, SYSTEM_SOCKET_ID,
                   [provider_data |-> provider_data, request_id |-> request_id])
        io == _send_message(IO, mephisto_socket, request_packet, error)
    IN  /\ nuuid' = nuuid + 1
        /\ pending_provider_requests' =
               Put(pending_provider_requests, request_id, res)
        /\ attempts' = io.attempts
        /\ retry_timers' = io.retry_timers
        /\ nsend' = io.nsend
        /\ UNCHANGED <<agent_id_to_socket, socket_id_to_agent, agent_id_to_agent,
                       mephisto_message_queue, main_thread_timeout,
                       mephisto_socket, armed_timers>>

\* The four endpoints served by make_provider_request.
ProviderEndpoints ==
    [initial_task_data |-> PACKET_TYPE_GET_INIT_DATA,
     register_worker |-> PACKET_TYPE_NEW_WORKER,
     request_agent |-> PACKET_TYPE_NEW_AGENT,
     submit_onboarding |-> PACKET_TYPE_SUBMIT_ONBOARDING]

\* The endpoints the environment calls: all four run the same
\* make_provider_request and differ in the packet type alone.
CalledEndpoints == {"initial_task_data", "request_agent"}

Submitted == [status |-> "Submitted!"]

\* submit_task that parks its response like the provider endpoints do.
submit_task_parked(agent_id, provider_data, files, error) ==
    LET submit_packet ==
            Packet(PACKET_TYPE_AGENT_ACTION, agent_id, SYSTEM_SOCKET_ID,
                   [task_data |-> provider_data, is_submit |-> TRUE,
                    files |-> files])
        io == _send_message(IO, mephisto_socket, submit_packet, error)
    IN  /\ attempts' = io.attempts
        /\ retry_timers' = io.retry_timers
        /\ nsend' = io.nsend
        /\ responses' = Append(responses, <<>>)
        /\ UNCHANGED <<agent_id_to_socket, socket_id_to_agent, agent_id_to_agent,
                       mephisto_message_queue, main_thread_timeout,
                       mephisto_socket, pending_provider_requests,
                       armed_timers, nuuid>>

submit_task(agent_id, provider_data, files, error) ==
    LET submit_packet ==
            Packet(PACKET_TYPE_AGENT_ACTION, agent_id, SYSTEM_SOCKET_ID,
                   [task_data |-> provider_data, is_submit |-> TRUE,
                    files |-> files])
        io == _send_message(IO, mephisto_socket, submit_packet, error)
    IN  /\ attempts' = io.attempts
        /\ retry_timers' = io.retry_timers
        /\ nsend' = io.nsend
        /\ responses' = Append(responses, <<Submitted>>)
        /\ UNCHANGED <<agent_id_to_socket, socket_id_to_agent, agent_id_to_agent,
                       mephisto_message_queue, main_thread_timeout,
                       mephisto_socket, pending_provider_requests,
                       armed_timers, nuuid>>

\* ------------------------------------------------------------ actions
\* wss.on('connection'): a client connects and its handlers are registered.
Connect ==
    \E socket \in Sockets :
        /\ ~crashed
        /\ readyState[socket] = UNCONNECTED
        /\ readyState' = [readyState EXCEPT ![socket] = OPEN]
        /\ event' = [op |-> "connection", socket |-> socket]
        /\ UNCHANGED <<server_vars, armed_timers, io_vars, nuuid, responses,
                       crashed, caught, ninputs, was_system, alive_on, expected>>

\* A socket closes.  The 'disconnect' handler looks the agent up and does
\* nothing with it.
Disconnect ==
    \E socket \in Sockets :
        /\ ~crashed
        /\ readyState[socket] = OPEN
        /\ readyState' = [readyState EXCEPT ![socket] = CLOSED]
        /\ event' = [op |-> "disconnect", socket |-> socket]
        /\ UNCHANGED <<server_vars, armed_timers, io_vars, nuuid, responses,
                       crashed, caught, ninputs, was_system, alive_on, expected>>

\* An agent_action addressed to an agent that has sent alive.
Owed(packet) ==
    /\ Get(packet, "packet_type") = PACKET_TYPE_AGENT_ACTION
    /\ Get(packet, "receiver_id") \in AgentIds
    /\ alive_on[packet.receiver_id] # NULL

\* A message arrives on an open socket.
Message ==
    \E socket \in Sockets, raw \in RawMessages :
        /\ ~crashed
        /\ readyState[socket] = OPEN
        /\ ninputs < MaxInputs
        /\ on_message(socket, raw)
        /\ ninputs' = ninputs + 1
        /\ event' = [op |-> "message", socket |-> socket, raw |-> raw]
        /\ was_system' =
               IF JSON_parses(raw)
                  /\ Get(JSON_parse(raw), "packet_type") = PACKET_TYPE_ALIVE
                  /\ Get(JSON_parse(raw), "sender_id") = SYSTEM_SOCKET_ID
               THEN was_system \cup {socket}
               ELSE was_system
        /\ alive_on' =
               IF JSON_parses(raw)
                  /\ Get(JSON_parse(raw), "packet_type") = PACKET_TYPE_ALIVE
                  /\ Get(JSON_parse(raw), "sender_id") \in AgentIds
               THEN [alive_on EXCEPT ![JSON_parse(raw).sender_id] = socket]
               ELSE alive_on
        /\ expected' =
               IF JSON_parses(raw) /\ Owed(JSON_parse(raw))
               THEN [expected EXCEPT ![JSON_parse(raw).receiver_id] =
                         Append(@, JSON_parse(raw))]
               ELSE expected
        /\ UNCHANGED readyState

\* The main_thread timer fires.
Tick ==
    \E errors \in [1..Queued -> BOOLEAN] :
        /\ ~crashed
        /\ armed_timers > 0
        /\ main_thread(errors)
        /\ event' = [op |-> "tick", taken |-> Queued]
        /\ expected' = [i \in AgentIds |-> <<>>]
        /\ UNCHANGED <<agent_id_to_socket, socket_id_to_agent, mephisto_socket,
                       pending_provider_requests, readyState, nuuid, responses,
                       caught, ninputs, was_system, alive_on>>

\* The oldest retry timer fires.
Retry ==
    \E error2 \in BOOLEAN :
        /\ ~crashed
        /\ retry_timers # <<>>
        /\ readyState[Head(retry_timers).socket] # OPEN => error2
        /\ send_retry(Head(retry_timers), error2)
        /\ event' = [op |-> "retry", sid |-> Head(retry_timers).sid]
        /\ UNCHANGED <<server_vars, readyState, armed_timers, nuuid, responses,
                       crashed, caught, ninputs, was_system, alive_on, expected>>

\* POST /initial_task_data, /register_worker, /request_agent, /submit_onboarding
ProviderRequest ==
    \E path \in CalledEndpoints, error \in BOOLEAN :
        /\ ~crashed
        /\ ninputs < MaxInputs
        /\ ninputs' = ninputs + 1
        /\ make_provider_request(ProviderEndpoints[path], "pd",
                                 Len(responses) + 1, error)
        /\ responses' = Append(responses, <<>>)
        /\ event' = [op |-> "http", path |-> path, res |-> Len(responses) + 1]
        /\ UNCHANGED <<readyState, crashed, caught, was_system, alive_on, expected>>

\* POST /submit_task
SubmitTask ==
    \E error \in BOOLEAN :
        /\ ~crashed
        /\ ninputs < MaxInputs
        /\ ninputs' = ninputs + 1
        /\ submit_task("a1", "td", "files", error)
        /\ event' = [op |-> "http", path |-> "submit_task",
                     res |-> Len(responses) + 1]
        /\ UNCHANGED <<readyState, crashed, caught, was_system, alive_on, expected>>

Next ==
    \/ Connect
    \/ Disconnect
    \/ Message
    \/ Tick
    \/ Retry
    \/ ProviderRequest
    \/ SubmitTask

Spec == Init /\ [][Next]_vars

\* The event loop with its timers honoured: an armed setTimeout(main_thread,
\* 50) fires in the end.
FairSpec == Spec /\ WF_vars(Tick)

\* ------------------------------------------------------------ properties
\* The event is a message of one of the given packet types.
IsMessage(e, types) ==
    /\ e.op = "message"
    /\ JSON_parses(e.raw)
    /\ Get(JSON_parse(e.raw), "packet_type") \in types

\* The event is an alive message sent under one of the given ids.
IsAlive(e, ids) ==
    /\ IsMessage(e, {PACKET_TYPE_ALIVE})
    /\ Get(JSON_parse(e.raw), "sender_id") \in ids

\* The socket.send calls a step adds to the log.
SendsOf(before, after) == SubSeq(after, Len(before) + 1, Len(after))

\* The texts a log holds as first sends to one socket for one receiver, in order.
FirstSends(log, socket, receiver) ==
    LET sel == SelectSeq(log, LAMBDA t :
                   /\ t.attempt = 1
                   /\ t.socket = socket
                   /\ Get(t.data.value, "receiver_id") = receiver)
    IN  [i \in 1..Len(sel) |-> sel[i].data]

Stringified(packets) == [i \in 1..Len(packets) |-> JSON_stringify(packets[i])]

\* C1: a dispatch tick sends to the open socket of every agent that has sent
\* alive exactly the agent_action packets addressed to that agent since the
\* previous tick, each once, in arrival order, all within that tick.
C1_TickDeliversAgentBatch ==
    [][event'.op = "tick" =>
          \A a \in AgentIds :
              (alive_on[a] # NULL /\ readyState[alive_on[a]] = OPEN) =>
                  FirstSends(SendsOf(attempts, attempts'), alive_on[a], a)
                      = Stringified(expected[a])]_vars

\* C2: the system role is held by the socket of the most recent system alive
\* and by no other, and what a dispatch tick sends to the system goes to
\* that socket.
C2_LatestSystemSocket ==
    [][/\ IsAlive(event', {SYSTEM_SOCKET_ID}) => mephisto_socket' = event'.socket
       /\ ~IsAlive(event', {SYSTEM_SOCKET_ID}) => mephisto_socket' = mephisto_socket
       /\ event'.op = "tick" =>
              LET sent == SendsOf(attempts, attempts')
              IN  /\ \A i \in 1..Len(sent) :
                         Get(sent[i].data.value, "receiver_id") = SYSTEM_SOCKET_ID
                             => sent[i].socket = mephisto_socket
                  /\ readyState[mephisto_socket] = OPEN =>
                         FirstSends(sent, mephisto_socket, SYSTEM_SOCKET_ID)
                             = Stringified(mephisto_message_queue)]_vars

\* C2 witness: two sockets have sent alive as the system, s2 last, and a tick
\* has just sent a packet to s2.
C2_Witness ==
    /\ was_system = {"s1", "s2"}
    /\ mephisto_socket = "s2"
    /\ event.op = "tick"
    /\ attempts # <<>>
    /\ \A i \in 1..Len(attempts) : attempts[i].socket = "s2"

\* C3: an agent_action addressed to the system identity is appended to the
\* system outbound queue by the handler that receives it.
C3_ActionForSystemQueued ==
    [][(/\ IsMessage(event', {PACKET_TYPE_AGENT_ACTION})
        /\ Get(JSON_parse(event'.raw), "receiver_id") = SYSTEM_SOCKET_ID)
       => mephisto_message_queue'
              = Append(mephisto_message_queue, JSON_parse(event'.raw))]_vars

\* C4: an alive from an agent id that has no record creates the record, with
\* status INIT and an empty queue, and binds the id and the socket in the
\* lookup maps.
C4_AliveRegistersAgent ==
    [][(/\ IsAlive(event', AgentIds)
        /\ ~Has(agent_id_to_agent, JSON_parse(event'.raw).sender_id))
       => LET agent_id == JSON_parse(event'.raw).sender_id
          IN  /\ Has(agent_id_to_agent', agent_id)
              /\ agent_id_to_agent'[agent_id].status = STATUS_INIT
              /\ agent_id_to_agent'[agent_id].unsent_messages = <<>>
              /\ Has(agent_id_to_socket', agent_id)
              /\ agent_id_to_socket'[agent_id] = event'.socket
              /\ \E k \in DOMAIN socket_id_to_agent' :
                     socket_id_to_agent'[k].agent_id = agent_id]_vars

\* C5: when an agent that was alive on a socket now closed sends alive on a
\* new socket, its record is kept: it is bound to the new socket and its
\* queue still holds the packets sent to it since the last tick.
C5_ReconnectKeepsQueue ==
    [][\A a \in AgentIds :
          (/\ IsAlive(event', {a})
           /\ alive_on[a] # NULL
           /\ alive_on[a] # event'.socket
           /\ readyState[alive_on[a]] = CLOSED)
          => /\ Has(agent_id_to_agent', a)
             /\ agent_id_to_agent'[a].unsent_messages = expected[a]
             /\ Has(agent_id_to_socket', a)
             /\ agent_id_to_socket'[a] = event'.socket]_vars

\* C6: a request_status message appends one return_status packet to the
\* system queue, from the server to the system, whose data maps exactly the
\* known agent ids to their statuses; nothing else changes.
C6_StatusSnapshot ==
    [][IsMessage(event', {PACKET_TYPE_REQUEST_AGENT_STATUS}) =>
          /\ Len(mephisto_message_queue') = Len(mephisto_message_queue) + 1
          /\ SubSeq(mephisto_message_queue', 1, Len(mephisto_message_queue))
                 = mephisto_message_queue
          /\ LET packet == mephisto_message_queue'[Len(mephisto_message_queue')]
             IN  /\ DOMAIN packet
                        = {"packet_type", "sender_id", "receiver_id", "data"}
                 /\ packet.packet_type = PACKET_TYPE_RETURN_AGENT_STATUS
                 /\ packet.sender_id = SERVER_SOCKET_ID
                 /\ packet.receiver_id = SYSTEM_SOCKET_ID
                 /\ DOMAIN packet.data = DOMAIN agent_id_to_agent
                 /\ \A a \in DOMAIN agent_id_to_agent :
                        packet.data[a] = agent_id_to_agent[a].status
          /\ UNCHANGED <<agent_id_to_socket, socket_id_to_agent,
                         agent_id_to_agent, main_thread_timeout, mephisto_socket,
                         pending_provider_requests, armed_timers, responses,
                         retry_timers, attempts>>]_vars

\* C6 witness: a request_status has just been handled and its snapshot is
\* the last packet of the system queue.
C6_Witness ==
    /\ IsMessage(event, {PACKET_TYPE_REQUEST_AGENT_STATUS})
    /\ mephisto_message_queue # <<>>
    /\ mephisto_message_queue[Len(mephisto_message_queue)].packet_type
           = PACKET_TYPE_RETURN_AGENT_STATUS

\* The event is a provider_details or initial_data_send message.
IsReply(e) == IsMessage(e, {PACKET_TYPE_PROVIDER_DETAILS, PACKET_TYPE_INIT_DATA})

\* The key the claims name: data.request_id, or receiver_id when the packet
\* carries no request_id.
ClaimedKey(packet) ==
    IF Has(packet, "data") /\ Has(packet.data, "request_id")
    THEN packet.data.request_id
    ELSE Get(packet, "receiver_id")

C8_UnmatchedReplyDropped ==
    [][(/\ IsReply(event')
        /\ ~Has(pending_provider_requests, ClaimedKey(JSON_parse(event'.raw))))
       => /\ ~crashed'
          /\ caught' = TypeError
          /\ readyState'[event'.socket] = OPEN
          /\ UNCHANGED <<agent_id_to_socket, socket_id_to_agent,
                         agent_id_to_agent, mephisto_message_queue,
                         main_thread_timeout, mephisto_socket,
                         pending_provider_requests, armed_timers, responses,
                         retry_timers, attempts>>]_vars

\* C8 witness: a second reply for the resolved request r1 has just been
\* dropped, and the response written by the first reply is still the only one.
C8_Witness ==
    /\ IsReply(event)
    /\ Has(JSON_parse(event.raw), "data")
    /\ ClaimedKey(JSON_parse(event.raw)) = "r1"
    /\ caught = TypeError
    /\ ~crashed
    /\ Len(responses) >= 1
    /\ Len(responses[1]) = 1
    /\ ~Has(pending_provider_requests, "r1")

\* The event is a call of one of the four provider endpoints.
IsProviderCall(e) == e.op = "http" /\ e.path \in DOMAIN ProviderEndpoints

\* The request packet make_provider_request builds for a call.
RequestPacket(path, request_id) ==
    Packet(ProviderEndpoints[path], SERVER_SOCKET_ID, SYSTEM_SOCKET_ID,
           [provider_data |-> "pd", request_id |-> request_id])

RequestTypes == {ProviderEndpoints[path] : path \in DOMAIN ProviderEndpoints}

AttemptsOf(sid) == SelectSeq(attempts, LAMBDA t : t.sid = sid)

\* C10: each _send_message call on an open socket makes one send; a second
\* send is made only after the first has failed, and never a third; the
\* packet is delivered once when either send succeeds and not at all when
\* both fail; a retry puts nothing back on a queue.
C10_OneRetry ==
    [][/\ \A sid \in 1..nsend' :
              LET a == SelectSeq(attempts', LAMBDA t : t.sid = sid)
                  delivered == SelectSeq(a, LAMBDA t : t.ok)
                  waiting == SelectSeq(retry_timers', LAMBDA t : t.sid = sid)
              IN  /\ Len(a) \in {1, 2}
                  /\ a[1].attempt = 1
                  /\ Len(a) = 2 =>
                         /\ a[2].attempt = 2
                         /\ ~a[1].ok
                         /\ a[2].socket = a[1].socket
                         /\ a[2].data = a[1].data
                  /\ a[1].ok => Len(a) = 1 /\ Len(delivered) = 1 /\ waiting = <<>>
                  /\ (Len(a) = 2 /\ a[2].ok) => Len(delivered) = 1
                  /\ (Len(a) = 2 /\ ~a[2].ok) => delivered = <<>>
                  /\ Len(delivered) <= 1
                  /\ Len(waiting) = (IF ~a[1].ok /\ Len(a) = 1 THEN 1 ELSE 0)
       /\ event'.op = "retry" =>
              /\ UNCHANGED <<mephisto_message_queue, agent_id_to_agent>>
              /\ Len(attempts') = Len(attempts) + 1
              /\ nsend' = nsend]_vars

\* C10 witness: a first send failed and its retry has just delivered the packet.
C10_Witness ==
    /\ event.op = "retry"
    /\ Len(AttemptsOf(event.sid)) = 2
    /\ ~AttemptsOf(event.sid)[1].ok
    /\ AttemptsOf(event.sid)[2].ok

\* The event is a call of POST /submit_task.
IsSubmitCall(e) == e.op = "http" /\ e.path = "submit_task"

\* The packet submit_task builds for the call the environment makes.
SubmitPacket ==
    Packet(PACKET_TYPE_AGENT_ACTION, "a1", SYSTEM_SOCKET_ID,
           [task_data |-> "td", is_submit |-> TRUE, files |-> "files"])

RoutedTypes ==
    {PACKET_TYPE_REQUEST_AGENT_STATUS, PACKET_TYPE_AGENT_ACTION,
     PACKET_TYPE_ALIVE, PACKET_TYPE_PROVIDER_DETAILS, PACKET_TYPE_INIT_DATA}

\* The event is a message that does not parse, or parses to a packet of a
\* type with no branch.
IsDiscarded(e) ==
    /\ e.op = "message"
    /\ \/ ~JSON_parses(e.raw)
       \/ Get(JSON_parse(e.raw), "packet_type") \notin RoutedTypes

\* C12: a message that does not parse or has an unrouted packet type is
\* discarded: nothing leaves the handler, the registry, the queues, the
\* pending table, the responses and the timers are unchanged, and every
\* socket stays as it was.
C12_BadMessageDiscarded ==
    [][IsDiscarded(event') =>
          /\ ~crashed'
          /\ caught' = (IF JSON_parses(event'.raw) THEN NoError ELSE SyntaxError)
          /\ readyState' = readyState
          /\ UNCHANGED <<agent_id_to_socket, socket_id_to_agent,
                         agent_id_to_agent, mephisto_message_queue,
                         main_thread_timeout, mephisto_socket,
                         pending_provider_requests, armed_timers, responses,
                         retry_timers, attempts>>]_vars

\* C12 witness: with a system socket set and a request pending, a message
\* that is no JSON has just been logged and dropped.
C12_Witness ==
    /\ event.op = "message"
    /\ ~JSON_parses(event.raw)
    /\ caught = SyntaxError
    /\ ~crashed
    /\ mephisto_socket # NULL
    /\ pending_provider_requests # EmptyObject
    /\ readyState[event.socket] = OPEN

\* The first sends among a stretch of the send log.
FirstAttempts(log) == SelectSeq(log, LAMBDA t : t.attempt = 1)

C14_ActionForAgentQueued ==
    [][\A a \in AgentIds :
          (/\ IsMessage(event', {PACKET_TYPE_AGENT_ACTION})
           /\ Get(JSON_parse(event'.raw), "receiver_id") = a
           /\ alive_on[a] # NULL)
          => LET packet == JSON_parse(event'.raw)
             IN  /\ Has(agent_id_to_agent', a)
                 /\ LET unsent_messages == agent_id_to_agent'[a].unsent_messages
                    IN  /\ unsent_messages # <<>>
                        /\ unsent_messages[Len(unsent_messages)] = packet
                 /\ \A b \in DOMAIN agent_id_to_agent \ {a} :
                        /\ Has(agent_id_to_agent', b)
                        /\ agent_id_to_agent'[b] = agent_id_to_agent[b]
                 /\ UNCHANGED <<mephisto_message_queue, agent_id_to_socket,
                                socket_id_to_agent,
                                pending_provider_requests>>]_vars

C16_OneDispatchTimer ==
    [][/\ armed_timers' <= 1
       /\ armed_timers' = (IF was_system' # {} THEN 1 ELSE 0)
       /\ (main_thread_timeout' # NULL) = (was_system' # {})
       /\ armed_timers' # armed_timers =>
              /\ IsAlive(event', {SYSTEM_SOCKET_ID})
              /\ was_system = {}
              /\ armed_timers = 0
              /\ armed_timers' = 1
       /\ event'.op = "tick" => armed_timers = 1 /\ armed_timers' = 1]_vars

\* C16 witness: the system has sent alive on both sockets, a tick has run
\* since, and one timer is armed.
C16_Witness ==
    /\ was_system = {"s1", "s2"}
    /\ event.op = "tick"
    /\ armed_timers = 1
    /\ main_thread_timeout = TIMEOUT

\* C17: the dispatch loop never stops once started: every agent id a tick
\* visits has a record, no tick throws, one timer stays armed, and a packet
\* waiting on the system queue while the loop runs is taken off it in the end.
C17_LoopRunsForever ==
    /\ [](/\ ~crashed
          /\ DOMAIN agent_id_to_socket \subseteq DOMAIN agent_id_to_agent
          /\ was_system # {} => armed_timers = 1)
    /\ (mephisto_message_queue # <<>> /\ armed_timers > 0)
           ~> (mephisto_message_queue = <<>> /\ event.op = "tick")

\* C17 witness: a tick has taken two waiting packets off the system queue,
\* handed both to the system socket, and left its timer armed.
C17_Witness ==
    /\ event.op = "tick"
    /\ event.taken = 2
    /\ mephisto_message_queue = <<>>
    /\ Len(attempts) = 2
    /\ \A i \in 1..2 : attempts[i].socket = mephisto_socket
    /\ armed_timers = 1
    /\ ~crashed

\* The system socket is missing or closed.
SystemUnreachable ==
    \/ mephisto_socket = NULL
    \/ readyState[mephisto_socket] = CLOSED

\* C18: while the system socket is missing or closed, a tick or an HTTP call
\* that has a packet for it makes no send and sets no retry for that packet,
\* raises nothing and puts nothing on the queue; the tick still empties the
\* queue and sets its next timer.
C18_UnreachableIsNoOp ==
    [][(event'.op \in {"tick", "http"} /\ SystemUnreachable) =>
          /\ \A i \in Len(attempts) + 1 .. Len(attempts') :
                 Get(attempts'[i].data.value, "receiver_id") # SYSTEM_SOCKET_ID
          /\ \A i \in Len(retry_timers) + 1 .. Len(retry_timers') :
                 Get(retry_timers'[i].packet, "receiver_id") # SYSTEM_SOCKET_ID
          /\ Len(attempts') >= Len(attempts)
          /\ ~crashed'
          /\ caught' = caught
          /\ IF event'.op = "tick"
             THEN /\ mephisto_message_queue' = <<>>
                  /\ armed_timers' = 1
                  /\ main_thread_timeout' = TIMEOUT
             ELSE mephisto_message_queue' = mephisto_message_queue]_vars

\* C18 witness: a tick found packets queued for a system socket that had
\* closed: the queue is empty, nothing was ever sent, no retry is set, and
\* the next tick is armed.
C18_Witness ==
    /\ event.op = "tick"
    /\ event.taken >= 1
    /\ mephisto_socket # NULL
    /\ readyState[mephisto_socket] = CLOSED
    /\ mephisto_message_queue = <<>>
    /\ attempts = <<>>
    /\ retry_timers = <<>>
    /\ armed_timers = 1
    /\ ~crashed

\* C19: a pending entry is removed only by a reply whose key is its request
\* id, which writes the entry's response once; no other step removes the
\* entry, binds its id to another response or writes its response, and the
\* response of an entry still pending is unwritten.
C19_PendingUntilMatched ==
    [][/\ \A k \in DOMAIN pending_provider_requests :
              LET res == pending_provider_requests[k] IN
              (\/ ~Has(pending_provider_requests', k)
               \/ pending_provider_requests'[k] # res
               \/ responses'[res] # responses[res])
              => /\ IsReply(event')
                 /\ ClaimedKey(JSON_parse(event'.raw)) = k
                 /\ ~Has(pending_provider_requests', k)
                 /\ responses'[res] = <<JSON_parse(event'.raw)>>
       /\ \A k \in DOMAIN pending_provider_requests' :
              responses'[pending_provider_requests'[k]] = <<>>]_vars

\* C19 witness: of two pending requests the second has just been answered,
\* and the first is still pending with its response unwritten.
C19_Witness ==
    /\ IsReply(event)
    /\ ClaimedKey(JSON_parse(event.raw)) = "r2"
    /\ DOMAIN pending_provider_requests = {"r1"}
    /\ responses[pending_provider_requests["r1"]] = <<>>
    /\ \E i \in 1..Len(responses) : responses[i] = <<JSON_parse(event.raw)>>

\* Every value of a status snapshot is the INIT status.
AllInit(packet) ==
    Get(packet, "packet_type") = PACKET_TYPE_RETURN_AGENT_STATUS
        => \A agent_id \in DOMAIN packet.data :
               packet.data[agent_id] = STATUS_INIT

====
